---- MODULE Spec2Model ----
(***************************************************************************)
(* Model of the normalisation / synchronisation pipeline of               *)
(* daily-self-regulation-llm:                                              *)
(*   - pipelines/preprocess.py (load_raw_data, filter_documents_to_process,*)
(*     save_cleaned_documents / prepare_docs_for_upsert, run_preprocessing)*)
(*   - domain/base/nosql.py (bulk_upsert, bulk_insert, find, save)         *)
(*   - application/crawlers/calendar.py (CalendarCrawler)                  *)
(*                                                                         *)
(* Collections are sets of documents with a unique _id.  A find() without  *)
(* sort returns documents in an order MongoDB leaves unspecified, and      *)
(* bulk_write(ordered=False) applies its operations "in arbitrary order";  *)
(* both are modelled as a choice over every order.                         *)
(***************************************************************************)
EXTENDS Integers, FiniteSets, Sequences, TLC

\* ------------------------------------------------------------------ bounds
MaxRaw == 2        \* raw entities in the raw collection
MaxSpan == 2       \* calendar days a raw interval can touch
MaxClock == 2      \* ticks of the wall clock (utcnow) a behaviour may use
MaxIds == 8        \* uuid4 values available for canonical documents
MaxFiles == 2      \* paths of the watched directory
MaxKeys == 1       \* distinct (title, start_datetime) event keys
MaxEdits == 2      \* times the user writes or deletes a file of the directory
MaxFaults == 1     \* times find_one raises OperationFailure
MaxEvents == 2     \* events of the user's Google calendars
MaxSyncs == 4      \* Google crawls and Google preprocessing runs of a behaviour
MaxDay == 3        \* calendar days a timestamp can lie in
DayLen == 3        \* time slots of one calendar day
MaxWords == 1      \* words of an event title
MaxBatch == 2      \* stored documents read by one run

RawIds == 1..MaxRaw
Ids == 1..MaxIds
Runs == {1, 2}
Paths == 1..MaxFiles
Keys == 1..MaxKeys
GIds == 1..MaxEvents

\* pd.NaT / None in the time column of a raw record
NaT == 0 - 1
\* a time column value later than every processing time of the behaviour
\* (an end_datetime in the future, or local time compared with utcnow)
Far == MaxClock + 1

\* ------------------------------------------------------------------ state
VARIABLES
    raw,        \* raw collection: id -> [time, span, ver]
    store,      \* cleaned collection: set of [id, oid, sub, ver, pat]
    now,        \* wall clock
    pc,         \* per pipeline run: "idle", "loaded", "prepared", "saved", "resaved"
    incr,       \* per run: the incremental flag of run_preprocessing
    sel,        \* per run: rows of the DataFrame after load_raw_data
    pmap,       \* per run: processed_map of load_raw_data
    batch,      \* per run: the CleanedDocument objects handed to bulk_upsert
    emap,       \* per run: existing_map of prepare_docs_for_upsert
    result,     \* per run: dict returned by bulk_upsert
    werr        \* per run: writeErrors of the BulkWriteError bulk_upsert caught

VARIABLES
    files,      \* directory: path -> content of the .xlsx file
    edits,      \* writes to the directory so far
    pfiles,     \* processed_files collection: set of [file_path, file_hash, n]
    events,     \* calendar collection: set of [key, n]
    acked,      \* (path, hash) pairs for which extract saw success = True
    cpc,        \* position of CalendarCrawler.extract
    todo,       \* excel_files the for loop has not handled yet
    cur,        \* file_path, file_hash of the current loop iteration
    ok,         \* value _process_single_file returned
    outcome,    \* how the latest loop iteration ended
    faults      \* OperationFailures raised so far

pvars == <<raw, store, now, pc, incr, sel, pmap, batch, emap, result, werr>>
VARIABLES
    gapi,       \* the user's Google calendars: event id -> start slot, or NoEvent
    graw,       \* google calendar collection: set of GoogleCalendarDocument
    gclean,     \* canonical records of Google events: [original_id, is_valid, processed_at]
    gnow,       \* wall clock of the Google crawls and runs
    glast,      \* the latest crawl that fetched something: window, fetched ids, time
    gsynced     \* the pipeline has run since the latest crawl

cvars == <<files, edits, pfiles, events, acked, cpc, todo, cur, ok, outcome, faults>>
VARIABLES
    trow,       \* the raw row handed to CalendarPreprocessor.clean
    tout,       \* the rows (then documents) clean has produced from it
    tstage,     \* the step of clean reached: "raw", "split", "renamed",
                \* "classified", "cleaned", or "again"; for a whole run
                \* over tdocs, "stored" then "saved"
    trules,     \* category_rename_rules of the preprocessor
    tagain,     \* what renaming and classifying the classified rows again gives
    tdocs       \* the calendar collection a whole run reads: stored documents

gvars == <<gapi, graw, gclean, gnow, glast, gsynced>>
tvars == <<trow, tout, tstage, trules, tagain, tdocs>>
vars == <<pvars, cvars, gvars, tvars>>

\* what an action of one component leaves alone
notp == <<cvars, gvars, tvars>>
notc == <<pvars, gvars, tvars>>
notg == <<pvars, cvars, tvars>>
nott == <<pvars, cvars, gvars>>

NoResult == [matched |-> 0 - 1, modified |-> 0 - 1, upserted |-> 0 - 1]
ZeroResult == [matched |-> 0, modified |-> 0, upserted |-> 0]
EmptyMap == [o \in {} |-> 0]

\* ------------------------------------------------------------------ nosql.py

\* bulk_find(): the documents of the cleaned collection
bulk_find == store

\* {str(doc.original_id): f(doc) for doc in bulk_find()}: for an original_id
\* carried by several documents the dict keeps the one the cursor returns
\* last; the cursor order is unspecified, so any of them.
DictsByOriginalId(docs, field) ==
    LET oids == {d.oid : d \in docs}
    IN  {m \in [oids -> {d[field] : d \in docs}] :
            \A o \in oids : \E d \in docs : d.oid = o /\ d[field] = m[o]}

\* one ReplaceOne({"_id": doc._id}, doc, upsert=True) applied to a collection
\* acc = [st, matched, modified, upserted]
ReplaceOne(acc, d) ==
    IF \E x \in acc.st : x.id = d.id
    THEN LET x == CHOOSE x \in acc.st : x.id = d.id
         IN  [st |-> (acc.st \ {x}) \cup {d},
              matched |-> acc.matched + 1,
              modified |-> acc.modified + (IF x = d THEN 0 ELSE 1),
              upserted |-> acc.upserted]
    ELSE [st |-> acc.st \cup {d},
          matched |-> acc.matched,
          modified |-> acc.modified,
          upserted |-> acc.upserted + 1]

RECURSIVE ApplyOps(_, _)
ApplyOps(acc, ops) ==
    IF ops = <<>> THEN acc
    ELSE ApplyOps(ReplaceOne(acc, Head(ops)), Tail(ops))

\* every order in which one _id's operations may be applied
RECURSIVE OpOrders(_)
OpOrders(S) ==
    IF S = {} THEN {<<>>}
    ELSE UNION {{<<d>> \o q : q \in OpOrders(S \ {d})} : d \in S}

\* The orders in which the server may apply a set of operations.  Operations
\* on different _ids commute, so only the relative order of the operations on
\* one _id matters: the _ids are taken in one fixed order, and the operations
\* of each _id in every order.
RECURSIVE OrdersOver(_, _)
OrdersOver(S, ids) ==
    IF ids = {} THEN {<<>>}
    ELSE LET i == CHOOSE i \in ids : \A j \in ids : i <= j
         IN  {q \o rest : q \in OpOrders({d \in S : d.id = i}),
                          rest \in OrdersOver(S, ids \ {i})}

Orders(S) == OrdersOver(S, {d.id : d \in S})

\* the dict bulk_upsert returns: the counts of the BulkWriteResult, or zeros
\* from the except branch when the server rejected at least one operation
BulkUpsertResult(acc, failed) ==
    IF failed # {} THEN ZeroResult
    ELSE [matched |-> acc.matched, modified |-> acc.modified, upserted |-> acc.upserted]

\* ------------------------------------------------------------------ preprocess.py

\* needs_processing with a missing time treated as changed
needs_processing_missing_time(id, time, processed_map) ==
    IF id \notin DOMAIN processed_map THEN TRUE
    ELSE IF time # NaT THEN time > processed_map[id]
    ELSE TRUE

\* needs_processing(row) of filter_documents_to_process
needs_processing(id, time, processed_map) ==
    IF id \notin DOMAIN processed_map THEN TRUE
    ELSE IF time # NaT THEN time > processed_map[id]
    ELSE FALSE

filter_documents_to_process(rows, processed_map) ==
    {row \in rows : needs_processing(row.id, row.time, processed_map)}

\* the rows bulk_find() returns for the raw collection
RawRows == {[id |-> e, time |-> raw[e].time, span |-> raw[e].span, ver |-> raw[e].ver] : e \in RawIds}

\* _split_across_midnight + _to_cleaned_documents: one cleaned dict per
\* sub-interval of every selected row, all carrying the row's id as original_id
SubIntervals(rows) ==
    UNION {{[oid |-> row.id, sub |-> k, ver |-> row.ver] : k \in 1..row.span} : row \in rows}

TypeOK ==
    /\ now \in 0..MaxClock
    /\ \A d \in store : d.id \in Ids

PInit ==
    /\ raw \in [RawIds -> [time : {NaT, 0, Far}, span : 1..MaxSpan, ver : {0}]]
    \* raw entities are interchangeable: one representative per multiset
    /\ \A e \in RawIds : e + 1 \in RawIds =>
           \/ raw[e].span < raw[e + 1].span
           \/ raw[e].span = raw[e + 1].span /\ raw[e].time <= raw[e + 1].time
    /\ store = {}
    /\ now = 0
    /\ pc = [r \in Runs |-> "idle"]
    /\ incr = [r \in Runs |-> TRUE]
    /\ sel = [r \in Runs |-> {}]
    /\ pmap = [r \in Runs |-> EmptyMap]
    /\ batch = [r \in Runs |-> {}]
    /\ emap = [r \in Runs |-> EmptyMap]
    /\ result = [r \in Runs |-> NoResult]
    /\ werr = [r \in Runs |-> {}]

\* load_raw_data(incremental): read the raw collection and, in incremental
\* mode with a non-empty frame, keep the rows filter_documents_to_process selects
load_raw_data(r, incremental) ==
    /\ pc[r] \in {"idle", "saved", "resaved"}
    /\ incr' = [incr EXCEPT ![r] = incremental]
    /\ IF incremental /\ RawRows # {}
       THEN \E m \in DictsByOriginalId(bulk_find, "pat") :
                /\ pmap' = [pmap EXCEPT ![r] = m]
                /\ sel' = [sel EXCEPT ![r] = filter_documents_to_process(RawRows, m)]
       ELSE /\ pmap' = [pmap EXCEPT ![r] = EmptyMap]
            /\ sel' = [sel EXCEPT ![r] = RawRows]
    /\ pc' = [pc EXCEPT ![r] = "loaded"]
    /\ batch' = [batch EXCEPT ![r] = {}]
    /\ emap' = [emap EXCEPT ![r] = EmptyMap]
    /\ result' = [result EXCEPT ![r] = NoResult]
    /\ werr' = [werr EXCEPT ![r] = {}]
    /\ UNCHANGED <<raw, store, now>>

\* uuid4 values no document of the collection or of a pending batch carries
FreeIds == Ids \ ({d.id : d \in store} \cup UNION {{d.id : d \in batch[r]} : r \in Runs})

\* id: UUID4 = Field(default_factory=uuid.uuid4): every constructed document
\* draws an id no other document carries
RECURSIVE Mint(_, _)
Mint(docs, free) ==
    IF docs = {} THEN [d \in {} |-> 0]
    ELSE LET d == CHOOSE d \in docs : TRUE
             i == CHOOSE i \in free : \A j \in free : i <= j
         IN  [x \in docs |-> IF x = d THEN i ELSE Mint(docs \ {d}, free \ {i})[x]]

\* prepare_docs_for_upsert: a document whose original_id is in existing_map
\* takes the mapped _id, any other keeps the uuid4 it was constructed with
prepare_docs_for_upsert(docs, existing_map) ==
    {[d EXCEPT !.id = IF d.oid \in DOMAIN existing_map THEN existing_map[d.oid] ELSE d.id] : d \in docs}

\* preprocess_data and the first half of save_cleaned_documents: the selected
\* rows are split, one CleanedCalendarDocument is constructed per sub-interval
\* (processed_at = utcnow, id = uuid4) and prepare_docs_for_upsert resolves ids.
\* The uuid4 of a document whose id is resolved is overwritten before any use,
\* so only the other documents draw one.  A run that selected nothing saves
\* nothing.
prepare(r) ==
    /\ pc[r] = "loaded"
    /\ IF sel[r] = {}
       THEN /\ pc' = [pc EXCEPT ![r] = "idle"]
            /\ UNCHANGED <<now, batch, emap>>
       ELSE /\ now < MaxClock
            /\ now' = now + 1
            /\ \E m \in DictsByOriginalId(bulk_find, "id") :
                   LET subs == SubIntervals(sel[r])
                       minted == {s \in subs : s.oid \notin DOMAIN m}
                   IN  /\ Cardinality(FreeIds) >= Cardinality(minted)
                       /\ LET uuid4 == Mint(minted, FreeIds)
                              docs == {[id |-> IF s \in minted THEN uuid4[s] ELSE 0,
                                        oid |-> s.oid, sub |-> s.sub,
                                        ver |-> s.ver, pat |-> now'] : s \in subs}
                          IN  /\ emap' = [emap EXCEPT ![r] = m]
                              /\ batch' = [batch EXCEPT ![r] = prepare_docs_for_upsert(docs, m)]
            /\ pc' = [pc EXCEPT ![r] = "prepared"]
    /\ UNCHANGED <<raw, store, incr, sel, pmap, result, werr>>

\* bulk_upsert(documents, match_field="_id"): one ReplaceOne per document,
\* bulk_write(ordered=False).  failed = the operations the server rejects.
bulk_upsert(r, failed) ==
    /\ pc[r] = "prepared"
    /\ failed \subseteq batch[r]
    /\ \E q \in Orders(batch[r] \ failed) :
           LET acc == ApplyOps([st |-> store, matched |-> 0, modified |-> 0, upserted |-> 0], q)
           IN  /\ store' = acc.st
               /\ result' = [result EXCEPT ![r] = BulkUpsertResult(acc, failed)]
    /\ werr' = [werr EXCEPT ![r] = failed]
    /\ pc' = [pc EXCEPT ![r] = "saved"]
    /\ UNCHANGED <<raw, now, incr, sel, pmap, batch, emap>>

\* the same CleanedDocument objects handed to the SyncWriter a second time:
\* prepare_docs_for_upsert followed by bulk_upsert
save_again(r) ==
    /\ pc[r] = "saved"
    /\ \E m \in DictsByOriginalId(bulk_find, "id") :
           LET docs == prepare_docs_for_upsert(batch[r], m)
           IN  /\ emap' = [emap EXCEPT ![r] = m]
               /\ batch' = [batch EXCEPT ![r] = docs]
               /\ \E q \in Orders(docs) :
                      LET acc == ApplyOps([st |-> store, matched |-> 0, modified |-> 0, upserted |-> 0], q)
                      IN  /\ store' = acc.st
                          /\ result' = [result EXCEPT ![r] = BulkUpsertResult(acc, {})]
    /\ pc' = [pc EXCEPT ![r] = "resaved"]
    /\ UNCHANGED <<raw, now, incr, sel, pmap, werr>>

\* an ingestion collaborator updates a raw entity and stamps its time column
modify_raw(e) ==
    /\ now < MaxClock
    /\ now' = now + 1
    /\ raw' = [raw EXCEPT ![e] = [time |-> now', span |-> @.span, ver |-> @.ver + 1]]
    /\ UNCHANGED <<store, pc, incr, sel, pmap, batch, emap, result, werr>>

\* an ingestion collaborator replaces the interval of a raw entity by one
\* that spans another number of days, and stamps its time column with the
\* present tick
modify_interval(e, span) ==
    /\ raw[e].ver < MaxClock
    /\ span # raw[e].span
    /\ raw' = [raw EXCEPT ![e] = [time |-> now, span |-> span, ver |-> @.ver + 1]]
    /\ UNCHANGED <<store, now, pc, incr, sel, pmap, batch, emap, result, werr>>

\* ------------------------------------------------------------------ crawlers/calendar.py

\* what a path of the directory holds: no file, bytes pandas cannot read as
\* the expected sheet, or a sheet with rows of the given event keys
\* a file's content: the event keys of its rows, and those of them that a
\* second row of the file repeats
Absent == [kind |-> "absent", rows |-> {}, twice |-> {}]
Corrupt == [kind |-> "corrupt", rows |-> {}, twice |-> {}]
Xlsx(rows) == [kind |-> "xlsx", rows |-> rows, twice |-> {}]
Contents == {Absent, Corrupt} \cup {Xlsx(rows) : rows \in SUBSET Keys}
\* the contents above, and files in which a row occurs twice
DupContents ==
    Contents \cup {c \in [kind : {"xlsx"}, rows : SUBSET Keys, twice : SUBSET Keys] :
                       c.twice \subseteq c.rows}

\* _calculate_file_hash: SHA256 of the bytes; different bytes, different digest
_calculate_file_hash(content) == [sha256 |-> content]

NoCur == [file_path |-> 0, file_hash |-> _calculate_file_hash(Absent)]

\* ProcessedFileDocument.find(file_path=, file_hash=): a matching document, or
\* None when there is none and also when find_one raised OperationFailure
find(file_path, file_hash, failure) ==
    IF failure THEN {}
    ELSE {d \in pfiles : d.file_path = file_path /\ d.file_hash = file_hash}

\* a lookup by content hash alone
_is_file_processed_by_hash(file_path, file_hash, failure) ==
    \E d \in pfiles : d.file_hash = file_hash

\* _is_file_processed: existing_record is not None
_is_file_processed(file_path, file_hash, failure) ==
    find(file_path, file_hash, failure) # {}

\* a new document of a collection; n stands for its fresh _id
ProcessedFileDocument(file_path, file_hash) ==
    [file_path |-> file_path, file_hash |-> file_hash,
     n |-> 1 + Cardinality(find(file_path, file_hash, FALSE))]

CalendarDocument(key) ==
    [key |-> key, n |-> 1 + Cardinality({d \in events : d.key = key})]

\* the document built from the second row of the same key in one file
SecondDocument(key) ==
    [key |-> key, n |-> 2 + Cardinality({d \in events : d.key = key})]

\* extract, step 4, with every record kept although processing failed
log_processed_always(success, saved, file_path, file_hash) ==
    IF saved THEN {ProcessedFileDocument(file_path, file_hash)} ELSE {}

\* extract, step 4: the processing record is saved on success only; save()
\* returns None and stores nothing when the write fails
log_processed(success, saved, file_path, file_hash) ==
    IF success /\ saved THEN {ProcessedFileDocument(file_path, file_hash)} ELSE {}

CInit ==
    /\ files = [p \in Paths |-> Absent]
    /\ edits = 0
    /\ pfiles = {}
    /\ events = {}
    /\ acked = {}
    /\ cpc = "idle"
    /\ todo = {}
    /\ cur = NoCur
    /\ ok = FALSE
    /\ outcome = "none"
    /\ faults = 0

\* the user exports, overwrites or deletes a file of the directory
write_file(p, c) ==
    /\ edits < MaxEdits
    /\ c # files[p]
    /\ files' = [files EXCEPT ![p] = c]
    /\ edits' = edits + 1
    /\ UNCHANGED <<pfiles, events, acked, cpc, todo, cur, ok, outcome, faults>>
    /\ UNCHANGED notc

\* extract: glob the directory; return when it holds no .xlsx file
extract ==
    /\ cpc \in {"idle", "killed"}
    /\ LET excel_files == {p \in Paths : files[p] # Absent}
       IN  /\ todo' = excel_files
           /\ cpc' = IF excel_files = {} THEN "idle" ELSE "loop"
    /\ outcome' = "none"
    /\ UNCHANGED <<files, edits, pfiles, events, acked, cur, ok, faults>>
    /\ UNCHANGED notc

\* where the for loop goes once file_path is handled
after(file_path) == IF todo \ {file_path} = {} THEN "idle" ELSE "loop"

\* extract, step 2: hash the file and ask whether (path, hash) is recorded.
\* A file deleted since the glob raises in open(); the loop goes on.
check_file(file_path, failure) ==
    /\ cpc = "loop"
    /\ file_path \in todo
    \* a failed lookup matters only where a lookup would have found a record
    /\ failure => /\ faults < MaxFaults
                  /\ find(file_path, _calculate_file_hash(files[file_path]), FALSE) # {}
    /\ faults' = IF failure THEN faults + 1 ELSE faults
    /\ LET file_hash == _calculate_file_hash(files[file_path])
       IN  IF files[file_path] = Absent
           THEN /\ outcome' = "error"
                /\ todo' = todo \ {file_path}
                /\ cpc' = after(file_path)
                /\ UNCHANGED cur
           ELSE IF _is_file_processed(file_path, file_hash, failure)
           THEN /\ outcome' = "skipped"
                /\ todo' = todo \ {file_path}
                /\ cpc' = after(file_path)
                /\ cur' = [file_path |-> file_path, file_hash |-> file_hash]
           ELSE /\ outcome' = "processing"
                /\ cpc' = "processing"
                /\ cur' = [file_path |-> file_path, file_hash |-> file_hash]
                /\ UNCHANGED todo
    /\ UNCHANGED <<files, edits, pfiles, events, acked, ok>>
    /\ UNCHANGED notc

\* _process_single_file: read the file as it is now; False when it cannot be
\* read, True when it is empty; otherwise insert the rows whose key the
\* collection does not hold.  insert_many stops at the first rejected
\* document: `inserted` is what it stored, and bulk_insert returns True only
\* when that is everything.
_process_single_file(inserted) ==
    /\ cpc = "processing"
    /\ LET df == files[cur.file_path]
           existing_events_set == {d.key : d \in events}
           documents_to_insert ==
               {CalendarDocument(k) : k \in df.rows \ existing_events_set}
                   \cup {SecondDocument(k) : k \in (df.rows \cap df.twice) \ existing_events_set}
       IN  IF df.kind # "xlsx"
           THEN /\ inserted = {}
                /\ ok' = FALSE
                /\ UNCHANGED events
           ELSE /\ inserted \subseteq documents_to_insert
                /\ events' = events \cup inserted
                /\ ok' = (inserted = documents_to_insert)
    /\ cpc' = "processed"
    /\ UNCHANGED <<files, edits, pfiles, acked, todo, cur, outcome, faults>>
    /\ UNCHANGED notc

\* extract, step 4: if success, save the ProcessedFileDocument
record_result(saved) ==
    /\ cpc = "processed"
    /\ pfiles' = pfiles \cup log_processed(ok, saved, cur.file_path, cur.file_hash)
    /\ acked' = IF ok THEN acked \cup {cur} ELSE acked
    /\ outcome' = IF ~ok THEN "failed" ELSE IF saved THEN "logged" ELSE "unsaved"
    /\ todo' = todo \ {cur.file_path}
    /\ cpc' = after(cur.file_path)
    /\ ok' = FALSE
    /\ UNCHANGED <<files, edits, events, cur, faults>>
    /\ UNCHANGED notc

\* the process is killed after marking the file and before processing it
interrupt_marked ==
    /\ cpc \in {"loop", "processing", "processed"}
    /\ cpc' = "killed"
    /\ pfiles' = IF cpc = "processing"
                 THEN pfiles \cup {ProcessedFileDocument(cur.file_path, cur.file_hash)}
                 ELSE pfiles
    /\ UNCHANGED <<files, edits, events, acked, todo, cur, ok, outcome, faults>>
    /\ UNCHANGED notc

\* the process is killed inside the for loop: what the collections hold stays,
\* what the loop had not done yet is not done
interrupt ==
    /\ cpc \in {"loop", "processing", "processed"}
    /\ cpc' = "killed"
    /\ UNCHANGED <<files, edits, pfiles, events, acked, todo, cur, ok, outcome, faults>>
    /\ UNCHANGED notc

\* ------------------------------------------------------------------ crawlers/google_calendar.py

\* no event with this id in the user's Google calendars
NoEvent == 0 - 1
\* where an event starts: 0 is more than 30 days ago, 1 within the last 30 days
Slots == {0, 1}
\* the time_min / time_max kwargs of extract: absent, or a range of slots
NoWindow == [given |-> FALSE, time_min |-> 0, time_max |-> 0]
Windows == {NoWindow} \cup
           {w \in [given : {TRUE}, time_min : Slots, time_max : Slots] : w.time_min <= w.time_max}

\* _fetch_events: events between timeMin and timeMax, the last 30 days when
\* the kwargs are absent; [] when the API answers with an HttpError
InFetchedWindow(window, slot) ==
    IF window.given THEN slot >= window.time_min /\ slot <= window.time_max
    ELSE slot = 1

_fetch_events(window, http_error) ==
    IF http_error THEN {}
    ELSE {e \in GIds : gapi[e] # NoEvent /\ InFetchedWindow(window, gapi[e])}

\* the _id a new document of the google calendar collection gets
NewRawId == 1 + Cardinality(graw)

\* bulk_upsert(documents_to_upsert, match_field="google_event_id"): every
\* document carries a new _id.  An event not stored yet is inserted; for a
\* stored event the replacement would change the immutable _id of the matched
\* document, the server rejects the operation and the stored document stays.
RECURSIVE UpsertByEventId(_, _, _)
UpsertByEventId(col, fetched, sync_time) ==
    IF fetched = {} THEN col
    ELSE LET e == CHOOSE e \in fetched : \A f \in fetched : e <= f
             doc == [id |-> 1 + Cardinality(col), google_event_id |-> e,
                     start_datetime |-> gapi[e], last_synced_at |-> sync_time,
                     is_deleted |-> FALSE]
         IN  UpsertByEventId(IF \E d \in col : d.google_event_id = e THEN col ELSE col \cup {doc},
                             fetched \ {e}, sync_time)

\* _mark_deleted_events: stored events with is_deleted = False (inside the
\* window when both bounds are given) whose id was not fetched are updated,
\* by google_event_id, to is_deleted = True and last_synced_at = now
_mark_deleted_events(col, fetched_event_ids, window, t) ==
    LET existing_events == {d \in col : /\ ~d.is_deleted
                                        /\ window.given => /\ d.start_datetime >= window.time_min
                                                           /\ d.start_datetime <= window.time_max}
        events_to_delete == {d.google_event_id : d \in {x \in existing_events :
                                                        x.google_event_id \notin fetched_event_ids}}
    IN  {IF d.google_event_id \in events_to_delete
         THEN [d EXCEPT !.is_deleted = TRUE, !.last_synced_at = t]
         ELSE d : d \in col}

GInit ==
    /\ gapi = [e \in GIds |-> NoEvent]
    /\ graw = {}
    /\ gclean = {}
    /\ gnow = 0
    /\ glast = [ran |-> FALSE, window |-> NoWindow, fetched |-> {}, at |-> 0,
                returned |-> {}]
    /\ gsynced = FALSE

\* the user adds an event to a calendar
google_create(e, slot) ==
    /\ gapi[e] = NoEvent
    /\ gapi' = [gapi EXCEPT ![e] = slot]
    /\ UNCHANGED <<graw, gclean, gnow, glast, gsynced>>
    /\ UNCHANGED notg

\* the user deletes an event from a calendar
google_delete(e) ==
    /\ gapi[e] # NoEvent
    /\ gapi' = [gapi EXCEPT ![e] = NoEvent]
    /\ UNCHANGED <<graw, gclean, gnow, glast, gsynced>>
    /\ UNCHANGED notg

\* GoogleCalendarCrawler.extract: fetch, return when nothing was fetched,
\* else upsert what was fetched and soft-delete what was not.  An event of
\* `broken` has no start/end or a time that does not parse: the loop leaves it
\* before its id is noted.  An event of `invalid` fails document validation:
\* its id is noted and no document is built.
google_crawl(window, http_error, broken, invalid) ==
    /\ gnow < MaxSyncs
    /\ gnow' = gnow + 1
    /\ LET all_events == _fetch_events(window, http_error)
           sync_time == gnow'
           fetched_event_ids == all_events \ broken
           documents_to_upsert == fetched_event_ids \ invalid
       IN  IF all_events = {}
           THEN /\ broken = {} /\ invalid = {}
                /\ UNCHANGED <<graw, glast, gsynced>>
           ELSE /\ broken \subseteq all_events
                /\ invalid \subseteq fetched_event_ids
                /\ graw' = _mark_deleted_events(
                               UpsertByEventId(graw, documents_to_upsert, sync_time),
                               fetched_event_ids, window, sync_time)
                /\ glast' = [ran |-> TRUE, window |-> window, fetched |-> fetched_event_ids,
                             at |-> sync_time, returned |-> all_events]
                /\ gsynced' = FALSE
    /\ UNCHANGED <<gapi, gclean>>
    /\ UNCHANGED notg

\* extract over events that are all well formed
google_extract(window, http_error) == google_crawl(window, http_error, {}, {})

\* run_preprocessing for the Google source: load the events with
\* is_deleted = False, keep those filter_documents_to_process selects on
\* last_synced_at, and upsert one canonical record (is_valid = True) for each
google_preprocess ==
    /\ gnow < MaxSyncs
    /\ gnow' = gnow + 1
    /\ LET google_calendar_docs == {d \in graw : ~d.is_deleted}
           processed_map == [o \in {c.original_id : c \in gclean} |->
                                (CHOOSE c \in gclean : c.original_id = o).processed_at]
           selected == {d \in google_calendar_docs :
                          needs_processing(d.id, d.last_synced_at, processed_map)}
       IN  gclean' = {c \in gclean : c.original_id \notin {d.id : d \in selected}}
                     \cup {[original_id |-> d.id, is_valid |-> TRUE, processed_at |-> gnow'] :
                           d \in selected}
    /\ gsynced' = TRUE
    /\ UNCHANGED <<gapi, graw, glast>>
    /\ UNCHANGED notg

\* ------------------------------------------------------------------ preprocessing/calendar.py

\* timestamps are slot numbers: DayLen slots a day, days 0 .. MaxDay - 1, and
\* the midnight that ends the last day
Times == 0..(MaxDay * DayLen)

\* Timestamp.date()
date(t) == t \div DayLen

\* pd.Timestamp(current_dt.date()) + pd.Timedelta(days=1), two days ahead
next_midnight_two_days(current_dt) == (date(current_dt) + 2) * DayLen

\* pd.Timestamp(current_dt.date()) + pd.Timedelta(days=1)
next_midnight(current_dt) == (date(current_dt) + 1) * DayLen

\* the next midnight, whatever the end is
always_midnight(a, b) == b

\* min(end_dt, next_midnight)
min(a, b) == IF a <= b THEN a ELSE b

\* titles are sequences of words; `kw in str(text)` is a word of the text
Contains(text, kw) == \E i \in DOMAIN text : text[i] = kw

\* no title is sleep
is_sleep_never(row) == FALSE

\* is_sleep = "수면" in str(data.get("event_name", "")); the word is written
\* "sleep" here
is_sleep(row) == Contains(row.event_name, "sleep")

\* the while loop of _split_row_across_midnight, entered with current_dt
RECURSIVE SplitLoop(_, _, _)
SplitLoop(data, current_dt, end_dt) ==
    IF current_dt < end_dt
    THEN LET split_end_dt == min(end_dt, next_midnight(current_dt))
         IN  <<[data EXCEPT !.start_datetime = current_dt,
                            !.end_datetime = split_end_dt,
                            !.duration_minutes = split_end_dt - current_dt]>>
             \o SplitLoop(data, split_end_dt, end_dt)
    ELSE <<>>

\* the splitter without its same-date case
_split_row_always_loop(row) ==
    IF is_sleep(row)
    THEN <<[row EXCEPT !.duration_minutes = row.end_datetime - row.start_datetime]>>
    ELSE SplitLoop(row, row.start_datetime, row.end_datetime)

\* _split_row_across_midnight: a sleep row and a row that starts and ends on
\* the same date are returned whole; any other row goes through the loop
_split_row_across_midnight(row) ==
    IF is_sleep(row)
    THEN <<[row EXCEPT !.duration_minutes = row.end_datetime - row.start_datetime]>>
    ELSE IF date(row.start_datetime) = date(row.end_datetime)
    THEN <<[row EXCEPT !.duration_minutes = row.end_datetime - row.start_datetime]>>
    ELSE SplitLoop(row, row.start_datetime, row.end_datetime)

\* strftime('%Y-%m-%d')
strftime(t) == [ymd |-> date(t)]

\* ref_date of _to_cleaned_documents: end date for sleep, start date otherwise
ref_date(row) ==
    IF is_sleep(row) THEN strftime(row.end_datetime) ELSE strftime(row.start_datetime)

\* ------------------------------------------------------------------ the classifier
\* Category names, keywords and tags are written in ASCII: "relationship" is
\* 인간관계, "maintenance" 유지 / 정리, "rest" 휴식 / 회복, "chore" Daily / Chore,
\* "learning" 학습 / 성장, "work" 일 / 생산, "exercise" 운동, "moved" 이동;
\* "#rel" is #인간관계, "#emo" #감정이벤트, "#now" #즉시만족.
\* A text is a sequence of words.  A sub-label is a sequence of tokens, the
\* pieces between white space, and a token is a sequence of atoms: "#rel"
\* followed by "," is the tag with a comma glued to it.

\* str.lower()
Lower(w) == IF w = "Netflix" THEN "netflix" ELSE w

\* kw in word: "breakfast" (아침식사) and "mealprep" (식사준비) contain "meal" (식사)
Includes(w, kw) ==
    \/ Lower(w) = kw
    \/ kw = "meal" /\ Lower(w) \in {"breakfast", "mealprep"}

\* any(keyword in text.lower() for keyword in keywords)
HasKeyword(text, keywords) ==
    \E i \in DOMAIN text : \E kw \in keywords : Includes(text[i], kw)

ANAEROBIC_KEYWORDS == {"squat"}
AEROBIC_KEYWORDS == {"walk"}
RISKY_RECHARGER_KEYWORDS == {"netflix"}
DRIVING_KEYWORDS == {"drive"}
RELATIONSHIP_MAINTENANCE_KEYWORDS == {"chat"}
MEAL_KEYWORDS == {"meal"}

\* MEAL_PREPARATION_KEYWORDS: "식사준비", or "식사 준비" in two words
is_meal_prep(text) ==
    \/ \E i \in DOMAIN text : Lower(text[i]) = "mealprep"
    \/ \E i \in DOMAIN text : /\ i + 1 \in DOMAIN text
                              /\ Lower(text[i]) \in {"meal", "breakfast"}
                              /\ Lower(text[i + 1]) = "prep"

\* all the atoms of a sub-label, as one text
RECURSIVE Flatten(_)
Flatten(sub) == IF sub = <<>> THEN <<>> ELSE Head(sub) \o Flatten(Tail(sub))

\* tag in sub_category, the substring test
SubContains(sub, tag) == \E i \in DOMAIN sub : \E j \in DOMAIN sub[i] : sub[i][j] = tag

IsHash(atom) == atom \in {"#rel", "#emo", "#now", "#plan"}

\* the rest of a token from its first '#' on: what #\S+ matches in it
RECURSIVE FromHash(_)
FromHash(token) ==
    IF token = <<>> THEN <<>>
    ELSE IF IsHash(Head(token)) THEN token
    ELSE FromHash(Tail(token))

\* re.findall(r'#\S+', sub_category)
RECURSIVE findall(_)
findall(sub) ==
    IF sub = <<>> THEN <<>>
    ELSE (IF FromHash(Head(sub)) = <<>> THEN <<>> ELSE <<FromHash(Head(sub))>>)
         \o findall(Tail(sub))

\* _extract_all_tags
_extract_all_tags(sub_category) ==
    IF sub_category = <<>> THEN <<>> ELSE findall(sub_category)

\* tag in all_tags, the list membership test
InTags(tags, tag) == \E i \in DOMAIN tags : tags[i] = <<tag>>

\* None in a text column, in a list-of-tags column, in a label column
NoText == <<"None">>
NoTags == << <<"None">> >>
NoLabel == "None"

\* position of the first "_" of a title, 0 when there is none
FirstUnderscore(text) ==
    IF \E i \in DOMAIN text : text[i] = "_"
    THEN CHOOSE i \in DOMAIN text : text[i] = "_" /\ \A j \in 1..(i - 1) : text[j] # "_"
    ELSE 0

\* _rename_categories, one rule: rows of the old label that start on or
\* before the cutoff date get the new label
rename_rule(rows, rule) ==
    [i \in DOMAIN rows |->
        IF /\ strftime(rows[i].start_datetime).ymd <= rule.before_date.ymd
           /\ rows[i].calendar_name = rule.old
        THEN [rows[i] EXCEPT !.calendar_name = rule.new]
        ELSE rows[i]]

\* _rename_categories: the rules one after another, each on the frame the
\* previous one left; an empty frame has no start_datetime column
RECURSIVE _rename_categories(_, _)
_rename_categories(rows, rules) ==
    IF rows = <<>> \/ rules = <<>> THEN rows
    ELSE _rename_categories(rename_rule(rows, Head(rules)), Tail(rules))

\* _preprocess_daily_chore: a driving row gets the fixed title and its old
\* title in front of its notes
_preprocess_daily_chore(event_name, notes) ==
    IF HasKeyword(event_name \o notes, DRIVING_KEYWORDS) /\ event_name # <<>>
    THEN [processed_event_name |-> <<"drive">>,
          processed_notes |-> IF notes # <<>> THEN event_name \o <<"-">> \o notes
                              ELSE event_name]
    ELSE [processed_event_name |-> event_name, processed_notes |-> notes]

\* the exercise typing with the anaerobic set tested first and alone
_preprocess_exercise_first_match(event_name, sub_category) ==
    LET combined_text == event_name \o Flatten(sub_category)
    IN  IF HasKeyword(combined_text, ANAEROBIC_KEYWORDS) THEN "anaerobic"
        ELSE IF HasKeyword(combined_text, AEROBIC_KEYWORDS) THEN "aerobic"
        ELSE "other"

\* _preprocess_exercise
_preprocess_exercise(event_name, sub_category) ==
    LET combined_text == event_name \o Flatten(sub_category)
        has_anaerobic == HasKeyword(combined_text, ANAEROBIC_KEYWORDS)
        has_aerobic == HasKeyword(combined_text, AEROBIC_KEYWORDS)
    IN  IF has_anaerobic /\ ~has_aerobic THEN "anaerobic"
        ELSE IF has_aerobic /\ ~has_anaerobic THEN "aerobic"
        ELSE IF has_anaerobic /\ has_aerobic THEN "mixed"
        ELSE "other"

\* _preprocess_rest: meal titles become the fixed meal title; risky recharger
\* by the #now tag or a keyword of the title
_preprocess_rest(event_name, sub_category) ==
    [processed_event_name |->
        IF event_name # <<>> /\ HasKeyword(event_name, MEAL_KEYWORDS)
        THEN <<"meal">> ELSE event_name,
     is_risky_recharger |->
        \/ sub_category # <<>> /\ SubContains(sub_category, "#now")
        \/ event_name # <<>> /\ HasKeyword(event_name, RISKY_RECHARGER_KEYWORDS)]

\* _apply_category_specific_preprocessing, one row of the frame
classify(row) ==
    LET event_name == row.event_name
        notes == row.notes
        rel == row.calendar_name = "relationship"
        sub_category ==
            IF rel /\ (row.sub_category = <<>> \/ ~SubContains(row.sub_category, "#rel"))
            THEN << <<"#rel">> >> ELSE row.sub_category
        reclassified ==
            IF ~rel THEN row.calendar_name
            ELSE IF event_name # <<>> /\ HasKeyword(event_name, RELATIONSHIP_MAINTENANCE_KEYWORDS)
            THEN "maintenance" ELSE "rest"
        category ==
            IF /\ reclassified = "chore" /\ event_name # <<>>
               /\ HasKeyword(event_name, MEAL_KEYWORDS) /\ ~is_meal_prep(event_name)
            THEN "rest" ELSE reclassified
        u == FirstUnderscore(event_name)
        chore == _preprocess_daily_chore(event_name, notes)
        rest == _preprocess_rest(event_name, sub_category)
        all_tags == _extract_all_tags(sub_category)
    IN  [id |-> row.id,
         start_datetime |-> row.start_datetime,
         end_datetime |-> row.end_datetime,
         duration_minutes |-> row.duration_minutes,
         event_name |-> event_name,
         notes |-> notes,
         calendar_name |-> category,
         sub_category |-> sub_category,
         processed_event_name |->
            IF category = "chore" THEN chore.processed_event_name
            ELSE IF category = "rest" THEN rest.processed_event_name
            ELSE event_name,
         processed_notes |->
            IF category = "chore" THEN chore.processed_notes ELSE notes,
         extracted_tags |-> all_tags,
         learning_method |->
            IF category = "learning" /\ u # 0 THEN SubSeq(event_name, 1, u - 1) ELSE NoText,
         learning_target |->
            IF category = "learning" /\ u # 0
            THEN SubSeq(event_name, u + 1, Len(event_name)) ELSE NoText,
         work_tags |->
            IF category = "work" /\ sub_category # <<>> /\ findall(sub_category) # <<>>
            THEN findall(sub_category) ELSE NoTags,
         exercise_type |->
            IF category = "exercise" THEN _preprocess_exercise(event_name, sub_category)
            ELSE NoLabel,
         is_risky_recharger |-> category = "rest" /\ rest.is_risky_recharger,
         has_emotion_event |-> InTags(all_tags, "#emo"),
         has_relationship_tag |-> InTags(all_tags, "#rel")]

\* the loop of _apply_category_specific_preprocessing over the frame
_apply_category_specific_preprocessing(rows) ==
    [i \in DOMAIN rows |-> classify(rows[i])]

\* the classifier's output read as a raw row again: category, sub-label,
\* rewritten title and rewritten notes
AsRow(out) ==
    [id |-> out.id,
     start_datetime |-> out.start_datetime,
     end_datetime |-> out.end_datetime,
     duration_minutes |-> out.duration_minutes,
     event_name |-> out.processed_event_name,
     notes |-> out.processed_notes,
     calendar_name |-> out.calendar_name,
     sub_category |-> out.sub_category]

\* _to_cleaned_documents: one cleaned document per row; None lists become []
_to_cleaned_documents(rows) ==
    [i \in DOMAIN rows |->
        [original_id |-> rows[i].id,
         ref_date |-> ref_date(rows[i]),
         start_datetime |-> rows[i].start_datetime,
         end_datetime |-> rows[i].end_datetime,
         duration_minutes |-> rows[i].duration_minutes,
         category_name |-> rows[i].calendar_name,
         original_event_name |-> rows[i].event_name,
         event_name |-> rows[i].processed_event_name,
         notes |-> rows[i].processed_notes,
         sub_category |-> rows[i].sub_category,
         is_sleep |-> is_sleep(rows[i]),
         extracted_tags |-> rows[i].extracted_tags,
         learning_method |-> rows[i].learning_method,
         learning_target |-> rows[i].learning_target,
         work_tags |-> IF rows[i].work_tags = NoTags THEN <<>> ELSE rows[i].work_tags,
         exercise_type |-> rows[i].exercise_type,
         is_risky_recharger |-> rows[i].is_risky_recharger,
         has_emotion_event |-> rows[i].has_emotion_event,
         has_relationship_tag |-> rows[i].has_relationship_tag,
         is_valid |-> TRUE]]

\* titles, notes, categories and sub-labels the classifier is given
Words == {"sleep", "chat", "drive", "meal", "breakfast", "mealprep", "prep",
          "Netflix", "walk", "squat", "coffee", "_"}
Titles == UNION {[1..n -> Words] : n \in 0..MaxWords}
NotesIn == {<<>>, <<"memo">>, <<"drive">>}
Categories == {"relationship", "maintenance", "rest", "chore", "learning", "work",
               "drain", "exercise"}
SubLabels == {<<>>, << <<"#rel">> >>, << <<"#emo">> >>, << <<"#rel">>, <<"#emo">> >>,
              << <<"#rel", ",", "#emo">> >>, << <<"#now">> >>, << <<"#plan">>, <<"#emo">> >>,
              << <<"walk">> >>}

ClassRows ==
    [id : {1}, start_datetime : {0}, end_datetime : {1},
     event_name : Titles, duration_minutes : {0},
     notes : NotesIn, calendar_name : Categories, sub_category : SubLabels]

\* the rule of the shipped configuration that renames the maintenance category
ClassRuleLists ==
    {<<>>, <<[old |-> "maintenance", new |-> "moved", before_date |-> [ymd |-> 0]]>>}

\* rename rules over a legacy label, and the rows they are applied to
RenameRules ==
    [old : {"legacy", "moved"}, new : {"moved", "project"},
     before_date : {[ymd |-> d] : d \in 0..(MaxDay - 1)}]
RenameRuleLists == UNION {[1..n -> RenameRules] : n \in 0..2}
RenameRows ==
    [id : {1}, start_datetime : Times, end_datetime : Times,
     event_name : {<<"meeting">>, <<"night", "sleep">>}, duration_minutes : {0},
     notes : {<<>>}, calendar_name : {"legacy"}, sub_category : {<<>>}]

\* a raw calendar row as the splitter reads it
SplitRows ==
    [id : {1}, start_datetime : Times, end_datetime : Times,
     event_name : {<<"meeting">>, <<"night", "sleep">>}, duration_minutes : {0},
     notes : {<<>>}, calendar_name : {"work"}, sub_category : {<<>>}]

NoRow == [id |-> 0, start_datetime |-> 0, end_datetime |-> 0,
          event_name |-> <<>>, duration_minutes |-> 0,
          notes |-> <<>>, calendar_name |-> "None", sub_category |-> <<>>]

\* a stored calendar document: the row it holds and whether its fields
\* validate ("ok"), its timestamp is unusable ("bad_time") or a required
\* field is missing ("no_field")
StoredDocs ==
    [row : [id : 1..MaxBatch, start_datetime : {0}, end_datetime : {1, DayLen + 1},
            event_name : {<<"meeting">>}, duration_minutes : {0},
            notes : {<<>>}, calendar_name : {"work", "chore"}, sub_category : {<<>>}],
     shape : {"ok", "bad_time", "no_field"}]

\* collections of stored documents, one per id
Collections ==
    UNION {{c \in [1..n -> StoredDocs] : \A i \in 1..n : c[i].row.id = i} : n \in 1..MaxBatch}

\* from_mongo: cls(**data) validates the fields and raises on a document
\* that does not validate
from_mongo(data) ==
    IF data.shape = "ok" THEN [raised |-> FALSE, document |-> data.row]
    ELSE [raised |-> TRUE, document |-> NoRow]

\* bulk_find: every document goes through from_mongo; only OperationFailure
\* is caught, so a validation error leaves the call
bulk_find_calendar(docs) ==
    IF \E i \in DOMAIN docs : from_mongo(docs[i]).raised
    THEN [raised |-> TRUE, documents |-> <<>>]
    ELSE [raised |-> FALSE, documents |-> [i \in DOMAIN docs |-> from_mongo(docs[i]).document]]

\* load_raw_data, calendar part, full reprocessing: any exception gives an
\* empty frame
load_calendar_frame(docs) ==
    IF bulk_find_calendar(docs).raised THEN <<>> ELSE bulk_find_calendar(docs).documents

\* _split_across_midnight: the pieces of every row, in row order
RECURSIVE _split_across_midnight(_)
_split_across_midnight(rows) ==
    IF rows = <<>> THEN <<>>
    ELSE _split_row_across_midnight(Head(rows)) \o _split_across_midnight(Tail(rows))

\* CalendarPreprocessor.clean
clean(rows, rules) ==
    _to_cleaned_documents(
        _apply_category_specific_preprocessing(
            _rename_categories(_split_across_midnight(rows), rules)))

\* preprocess_all: an empty frame is skipped
preprocess_all(rows, rules) == IF rows = <<>> THEN <<>> ELSE clean(rows, rules)

TInit ==
    /\ trow = NoRow
    /\ tout = <<>>
    /\ tstage = "none"
    /\ trules = <<>>
    /\ tagain = <<>>
    /\ tdocs = <<>>

\* clean, step 4: _split_across_midnight
split ==
    /\ tstage = "raw"
    /\ tout' = _split_row_across_midnight(trow)
    /\ tstage' = "split"
    /\ UNCHANGED <<trow, trules, tagain, tdocs>>
    /\ UNCHANGED nott

\* clean, step 5: _rename_categories
rename ==
    /\ tstage = "split"
    /\ tout' = _rename_categories(tout, trules)
    /\ tstage' = "renamed"
    /\ UNCHANGED <<trow, trules, tagain, tdocs>>
    /\ UNCHANGED nott

\* clean, step 6: _apply_category_specific_preprocessing
classify_rows ==
    /\ tstage = "renamed"
    /\ tout' = _apply_category_specific_preprocessing(tout)
    /\ tstage' = "classified"
    /\ UNCHANGED <<trow, trules, tagain, tdocs>>
    /\ UNCHANGED nott

\* clean, step 7: _to_cleaned_documents
to_cleaned ==
    /\ tstage = "classified"
    /\ tout' = _to_cleaned_documents(tout)
    /\ tstage' = "cleaned"
    /\ UNCHANGED <<trow, trules, tagain, tdocs>>
    /\ UNCHANGED nott

\* run_preprocessing(incremental=False): load, preprocess, and hand the
\* cleaned documents to save_cleaned_documents
run_preprocessing ==
    /\ tstage = "stored"
    /\ tout' = preprocess_all(load_calendar_frame(tdocs), trules)
    /\ tstage' = "saved"
    /\ UNCHANGED <<trow, trules, tagain, tdocs>>
    /\ UNCHANGED nott

\* steps 5 and 6 once more, on the rows step 6 has produced
classify_again ==
    /\ tstage = "classified"
    /\ tagain' = _apply_category_specific_preprocessing(
                    _rename_categories([i \in DOMAIN tout |-> AsRow(tout[i])], trules))
    /\ tstage' = "again"
    /\ UNCHANGED <<trow, tout, trules, tdocs>>
    /\ UNCHANGED nott

\* ------------------------------------------------------------------ specifications

Init == PInit /\ CInit /\ GInit /\ TInit

\* one pipeline run after another, while ingestion updates raw entities and
\* the server may reject writes
Next ==
    /\ UNCHANGED notp
    /\ \/ \E i \in BOOLEAN : load_raw_data(1, i)
       \/ prepare(1)
       \/ \E f \in SUBSET batch[1] : bulk_upsert(1, f)
       \/ \E e \in RawIds : modify_raw(e)

Spec == Init /\ [][Next]_vars

\* one run after another, every write accepted, while ingestion changes the
\* interval of raw entities
ResizeNext ==
    /\ UNCHANGED notp
    /\ \/ \E i \in BOOLEAN : load_raw_data(1, i)
       \/ prepare(1)
       \/ bulk_upsert(1, {})
       \/ \E e \in RawIds, span \in 1..MaxSpan : modify_interval(e, span)

ResizeSpec == Init /\ [][ResizeNext]_vars

\* one run after another over a raw dataset nobody changes, every write accepted
SeqNext ==
    /\ UNCHANGED notp
    /\ \/ \E i \in BOOLEAN : load_raw_data(1, i)
       \/ prepare(1)
       \/ bulk_upsert(1, {})

SeqSpec == Init /\ [][SeqNext]_vars

\* the same, with the SyncWriter also called a second time on the batch it
\* has just written
AgainNext ==
    /\ UNCHANGED notp
    /\ \/ \E i \in BOOLEAN : load_raw_data(1, i)
       \/ prepare(1)
       \/ bulk_upsert(1, {})
       \/ save_again(1)

AgainSpec == Init /\ [][AgainNext]_vars

\* two runs at once over the same single-day raw entities, every write accepted
ConcInit == Init /\ \A e \in RawIds : raw[e].span = 1

ConcNext ==
    /\ UNCHANGED notp
    /\ \/ \E r \in Runs : load_raw_data(r, TRUE)
       \/ \E r \in Runs : prepare(r)
       \/ \E r \in Runs : bulk_upsert(r, {})

ConcSpec == ConcInit /\ [][ConcNext]_vars

\* one run after another over single-day raw entities, while ingestion
\* updates raw entities and the server may reject writes
SelNext ==
    /\ UNCHANGED notp
    /\ \/ \E i \in BOOLEAN : load_raw_data(1, i)
       \/ prepare(1)
       \/ \E f \in SUBSET batch[1] : bulk_upsert(1, f)
       \/ \E e \in RawIds : modify_raw(e)

SelSpec == ConcInit /\ [][SelNext]_vars

\* crawler runs one after another over a directory the user keeps editing;
\* a run may fail to read, to insert or to save, and may be killed
CrawlInit ==
    /\ PInit
    /\ raw = [e \in RawIds |-> [time |-> NaT, span |-> 1, ver |-> 0]]
    /\ CInit
    /\ GInit
    /\ TInit

CrawlNext ==
    \/ \E p \in Paths, c \in Contents : write_file(p, c)
    \/ extract
    \/ \E p \in Paths, failure \in BOOLEAN : check_file(p, failure)
    \/ \E inserted \in SUBSET {CalendarDocument(k) : k \in Keys} : _process_single_file(inserted)
    \/ \E saved \in BOOLEAN : record_result(saved)
    \/ interrupt

CrawlSpec == CrawlInit /\ [][CrawlNext]_vars

\* the crawler over files that may repeat a row
DupNext ==
    \/ \E p \in Paths, c \in DupContents : write_file(p, c)
    \/ extract
    \/ \E p \in Paths, failure \in BOOLEAN : check_file(p, failure)
    \/ \E inserted \in SUBSET ({CalendarDocument(k) : k \in Keys}
                                  \cup {SecondDocument(k) : k \in Keys}) :
           _process_single_file(inserted)
    \/ \E saved \in BOOLEAN : record_result(saved)
    \/ interrupt

DupSpec == CrawlInit /\ [][DupNext]_vars

\* Google crawls and pipeline runs over the Google source, one after another,
\* while the user adds and deletes events
GcalNext ==
    \/ \E e \in GIds, slot \in Slots : google_create(e, slot)
    \/ \E e \in GIds : google_delete(e)
    \/ \E window \in Windows, http_error \in BOOLEAN : google_extract(window, http_error)
    \/ google_preprocess

GcalSpec == CrawlInit /\ [][GcalNext]_vars

\* Google crawls whose events may come back malformed
GpayNext ==
    \/ \E e \in GIds, slot \in Slots : google_create(e, slot)
    \/ \E e \in GIds : google_delete(e)
    \/ \E window \in Windows, http_error \in BOOLEAN, broken \in SUBSET GIds,
          invalid \in SUBSET GIds : google_crawl(window, http_error, broken, invalid)

GpaySpec == CrawlInit /\ [][GpayNext]_vars

\* CalendarPreprocessor.clean splits one raw row, whatever its timestamps,
\* and turns the pieces into cleaned documents
SplitInit ==
    /\ PInit
    /\ raw = [e \in RawIds |-> [time |-> NaT, span |-> 1, ver |-> 0]]
    /\ CInit
    /\ GInit
    /\ trow \in SplitRows
    /\ tout = <<>>
    /\ tstage = "raw"
    /\ trules = <<>>
    /\ tagain = <<>>
    /\ tdocs = <<>>

SplitNext ==
    \/ split
    \/ rename
    \/ classify_rows
    \/ to_cleaned

SplitSpec == SplitInit /\ [][SplitNext]_vars

\* clean over one row and a list of rename rules
RenameInit ==
    /\ PInit
    /\ raw = [e \in RawIds |-> [time |-> NaT, span |-> 1, ver |-> 0]]
    /\ CInit
    /\ GInit
    /\ trow \in RenameRows
    /\ tout = <<>>
    /\ tstage = "raw"
    /\ trules \in RenameRuleLists
    /\ tagain = <<>>
    /\ tdocs = <<>>

RenameSpec == RenameInit /\ [][SplitNext]_vars

\* clean over one row of any category, title, notes and sub-label, and the
\* classifier applied once more to what it produced
ClassInit ==
    /\ PInit
    /\ raw = [e \in RawIds |-> [time |-> NaT, span |-> 1, ver |-> 0]]
    /\ CInit
    /\ GInit
    /\ trow \in ClassRows
    /\ tout = <<>>
    /\ tstage = "raw"
    /\ trules \in ClassRuleLists
    /\ tagain = <<>>
    /\ tdocs = <<>>

ClassNext ==
    \/ split
    \/ rename
    \/ classify_rows
    \/ to_cleaned
    \/ classify_again

ClassSpec == ClassInit /\ [][ClassNext]_vars

\* one full run over a calendar collection whose documents may not validate
BatchInit ==
    /\ PInit
    /\ raw = [e \in RawIds |-> [time |-> NaT, span |-> 1, ver |-> 0]]
    /\ CInit
    /\ GInit
    /\ trow = NoRow
    /\ tout = <<>>
    /\ tstage = "stored"
    /\ trules = <<>>
    /\ tagain = <<>>
    /\ tdocs \in Collections

BatchNext == run_preprocessing

BatchSpec == BatchInit /\ [][BatchNext]_vars

\* ------------------------------------------------------------------ claims

\* canonical records stored for sub-interval k of raw entity e
Canonical(e, k) == {d \in store : d.oid = e /\ d.sub = k}

\* C1: after any sequence of pipeline runs over an unchanged raw dataset the
\* store holds exactly one canonical record per sub-interval of each raw
\* entity (none stored twice, none lost).
C1_OnePerSubInterval ==
    pc[1] = "saved" =>
        \A e \in RawIds : \A k \in 1..raw[e].span : Cardinality(Canonical(e, k)) = 1

\* C2: handing the same batch to the SyncWriter a second time leaves the
\* store as the first call left it and reports modified = 0 and upserted = 0.
C2_SecondCallIsNoOp ==
    [][(pc[1] = "saved" /\ pc'[1] = "resaved") =>
            /\ store' = store
            /\ result'[1].modified = 0
            /\ result'[1].upserted = 0]_vars

\* C3: a pipeline run (load, select, preprocess, save) over an unchanged raw
\* dataset whose identities were all written by an earlier run reports
\* inserted = 0 and modified = 0.
C3_SecondRunWritesNothing ==
    (/\ pc[1] = "saved"
     /\ incr[1]
     /\ \A d \in batch[1] : d.oid \in DOMAIN emap[1])
        => (result[1].modified = 0 /\ result[1].upserted = 0)

\* C4: whatever the interleaving of two concurrent runs over the same raw
\* input, the store ends with at most one canonical record per sub-interval
\* of a raw entity.
C4_ConcurrentRunsNoDuplicate ==
    (\A r \in Runs : pc[r] \in {"idle", "saved"}) =>
        \A e \in RawIds : \A k \in 1..raw[e].span : Cardinality(Canonical(e, k)) <= 1

C6_ChangeIsReprocessed ==
    pc[1] = "saved" =>
        \A row \in sel[1] :
            (/\ raw[row.id].ver > row.ver
             /\ \E d \in store : d \in batch[1] /\ d.oid = row.id)
                => \E m \in DictsByOriginalId(bulk_find, "pat") :
                       needs_processing(row.id, raw[row.id].time, m)

\* C10: when some operations of a bulk_upsert fail and the others succeed, the
\* written documents are in the store and the returned counts account for them.
C10_PartialFailureReported ==
    (pc[1] = "saved" /\ werr[1] # {} /\ werr[1] # batch[1]) =>
        /\ \A d \in batch[1] \ werr[1] : \E x \in store : x.id = d.id
        /\ result[1].matched + result[1].upserted = Cardinality(batch[1] \ werr[1])

\* a ProcessedFileDocument exists for the pair
Recorded(file_path, file_hash) == _is_file_processed(file_path, file_hash, FALSE)

\* C7: extract adds a ProcessedFileDocument only as the record of the file
\* whose _process_single_file has just returned success; when it returned
\* failure nothing is written; and a later run never skips a file whose
\* (path, hash) has no record: it processes it again.
C7_RecordOnlyAfterSuccess ==
    [][/\ pfiles' # pfiles =>
            /\ cpc = "processed" /\ ok
            /\ pfiles' = pfiles \cup {ProcessedFileDocument(cur.file_path, cur.file_hash)}
       /\ (cpc = "processed" /\ ~ok) => pfiles' = pfiles
       /\ \A p \in todo :
            LET h == _calculate_file_hash(files[p])
            IN  (/\ cpc = "loop" /\ cpc' # "killed" /\ edits' = edits
                 /\ files[p] # Absent /\ ~Recorded(p, h)
                 /\ (p \notin todo' \/ (cpc' = "processing" /\ cur'.file_path = p)))
                => /\ cpc' = "processing"
                   /\ cur' = [file_path |-> p, file_hash |-> h]]_vars

\* a run has ended after a file failed, and the file has no record
C7_Witness ==
    /\ cpc = "idle"
    /\ outcome = "failed"
    /\ ~Recorded(cur.file_path, cur.file_hash)
    /\ files[cur.file_path] # Absent

\* C8: no (path, hash) pair has a second ProcessedFileDocument, and
\* _process_single_file is never running for a pair that has a record.
C8_ProcessedAtMostOnce ==
    /\ \A d \in pfiles : d.n = 1
    /\ cpc \in {"processing", "processed"} => ~Recorded(cur.file_path, cur.file_hash)

C11_DeletionPropagates ==
    \A d \in graw :
        (/\ glast.ran /\ gsynced
         /\ d.google_event_id \notin glast.fetched
         /\ InFetchedWindow(glast.window, d.start_datetime))
        => \A c \in gclean : c.original_id = d.id => ~c.is_valid

\* the row given to the splitter is sleep-like, has been split
SleepLike == Contains(trow.event_name, "sleep")
Splitted == tstage \in {"split", "renamed", "classified", "cleaned"}
\* midnights strictly between the start and the end of the row
MidnightsCrossed ==
    {m \in Times : m % DayLen = 0 /\ trow.start_datetime < m /\ m < trow.end_datetime}
\* the sub-interval lies within the calendar day of its start
WithinOneDay(piece) ==
    /\ piece.start_datetime <= piece.end_datetime
    /\ piece.end_datetime <= ((piece.start_datetime \div DayLen) + 1) * DayLen

\* C12: a non-sleep row that crosses k >= 1 midnights gives exactly k + 1
\* sub-intervals, each within one calendar day and with the date of its own
\* start as date-of-record; a row from the last slot of day 0 to the slot
\* after the midnight that starts day 2 gives the three pieces up to midnight,
\* the whole of day 1, and from midnight on, dated day 0, day 1, day 2.
C12_KPlusOnePieces ==
    (Splitted /\ ~SleepLike /\ MidnightsCrossed # {}) =>
        /\ Len(tout) = Cardinality(MidnightsCrossed) + 1
        /\ \A i \in DOMAIN tout : WithinOneDay(tout[i])
        /\ tstage = "cleaned" =>
              \A i \in DOMAIN tout :
                  tout[i].ref_date = [ymd |-> tout[i].start_datetime \div DayLen]
        /\ (/\ tstage = "cleaned"
            /\ trow.start_datetime = DayLen - 1
            /\ trow.end_datetime = 2 * DayLen + 1) =>
              /\ [i \in DOMAIN tout |-> <<tout[i].start_datetime, tout[i].end_datetime>>]
                    = << <<DayLen - 1, DayLen>>, <<DayLen, 2 * DayLen>>,
                         <<2 * DayLen, 2 * DayLen + 1>> >>
              /\ [i \in DOMAIN tout |-> tout[i].ref_date]
                    = <<[ymd |-> 0], [ymd |-> 1], [ymd |-> 2]>>

\* the three-day example has been split and turned into documents
C12_Witness ==
    /\ tstage = "cleaned"
    /\ ~SleepLike
    /\ trow.start_datetime = DayLen - 1
    /\ trow.end_datetime = 2 * DayLen + 1
    /\ Len(tout) = 3

\* the sub-intervals start at the input start, end at the input end, and each
\* starts where the previous one ends
Reconstructs ==
    /\ Len(tout) >= 1
    /\ tout[1].start_datetime = trow.start_datetime
    /\ tout[Len(tout)].end_datetime = trow.end_datetime
    /\ \A i \in 1..(Len(tout) - 1) : tout[i].end_datetime = tout[i + 1].start_datetime

\* C13 as stated: for start <= end the sub-intervals reconstruct the input in
\* chronological order without gap or overlap, and none has zero length.
C13_NoZeroLengthPiece ==
    (Splitted /\ trow.start_datetime <= trow.end_datetime) =>
        /\ Reconstructs
        /\ \A i \in DOMAIN tout : tout[i].start_datetime < tout[i].end_datetime

\* C13, amended: for start <= end the sub-intervals reconstruct the input in
\* chronological order without gap or overlap, and none has zero length
\* unless the input itself has zero length, which is returned as one piece.
C13_Reconstructs ==
    (Splitted /\ trow.start_datetime <= trow.end_datetime) =>
        /\ Reconstructs
        /\ \A i \in DOMAIN tout :
              \/ tout[i].start_datetime < tout[i].end_datetime
              \/ trow.start_datetime = trow.end_datetime /\ Len(tout) = 1

\* a row ending inside a later day has been split into several pieces
C13_Witness ==
    /\ tstage = "split"
    /\ ~SleepLike
    /\ trow.start_datetime < trow.end_datetime
    /\ trow.end_datetime % DayLen # 0
    /\ Len(tout) >= 2

\* C14: a non-sleep row that starts and ends on the same date, a row of zero
\* duration included, gives exactly one sub-interval with the input's start
\* and end, and the start date as date-of-record.
C14_SameDateOnePiece ==
    (/\ Splitted /\ ~SleepLike
     /\ trow.start_datetime \div DayLen = trow.end_datetime \div DayLen) =>
        /\ Len(tout) = 1
        /\ tout[1].start_datetime = trow.start_datetime
        /\ tout[1].end_datetime = trow.end_datetime
        /\ tstage = "cleaned" =>
              tout[1].ref_date = [ymd |-> trow.start_datetime \div DayLen]

\* a zero-duration row has become one document
C14_Witness ==
    /\ tstage = "cleaned"
    /\ ~SleepLike
    /\ trow.start_datetime = trow.end_datetime
    /\ Len(tout) = 1

\* C15: a sleep-like row gives exactly one sub-interval equal to the input,
\* however many midnights it spans, and its date-of-record is the date of its
\* end.
C15_SleepNeverSplit ==
    (Splitted /\ SleepLike) =>
        /\ Len(tout) = 1
        /\ tout[1].start_datetime = trow.start_datetime
        /\ tout[1].end_datetime = trow.end_datetime
        /\ tstage = "cleaned" =>
              tout[1].ref_date = [ymd |-> trow.end_datetime \div DayLen]

\* a sleep row spanning two midnights has become one document
C15_Witness ==
    /\ tstage = "cleaned"
    /\ SleepLike
    /\ Cardinality(MidnightsCrossed) >= 2
    /\ Len(tout) = 1

\* C16: whatever the order of start and end, the splitter returns at least
\* one sub-interval.
C16_NeverEmpty ==
    Splitted => Len(tout) >= 1

\* the step of clean that renames, and the step that classifies
RenameStep == tstage = "split" /\ tstage' = "renamed"
ClassifyStep == tstage = "renamed" /\ tstage' = "classified"
\* date-of-record of a row: end date when sleep-like, start date otherwise
DateOfRecord(row) ==
    IF Contains(row.event_name, "sleep") THEN row.end_datetime \div DayLen
    ELSE row.start_datetime \div DayLen

\* C17: a single rename rule rewrites a row's category from old to new
\* exactly when the category equals old and the row's date-of-record is on or
\* before the cutoff; otherwise the category stays.
C17_RenameByDateOfRecord ==
    [][(RenameStep /\ Len(trules) = 1) =>
          \A i \in DOMAIN tout :
              tout'[i].calendar_name =
                  IF /\ tout[i].calendar_name = trules[1].old
                     /\ DateOfRecord(tout[i]) <= trules[1].before_date.ymd
                  THEN trules[1].new ELSE tout[i].calendar_name]_vars

\* the rules with the row's label as old label and a cutoff on or after its start date
MatchingRules(row) ==
    {j \in DOMAIN trules : /\ trules[j].old = row.calendar_name
                            /\ row.start_datetime \div DayLen <= trules[j].before_date.ymd}

\* C18: when two rules match the same row (same old label, date within both
\* cutoffs) the row ends with the new label of the last matching rule.
C18_LastMatchWins ==
    [][RenameStep =>
          \A i \in DOMAIN tout :
              Cardinality(MatchingRules(tout[i])) >= 2 =>
                  LET last == CHOOSE j \in MatchingRules(tout[i]) :
                                  \A k \in MatchingRules(tout[i]) : k <= j
                  IN  tout'[i].calendar_name = trules[last].new]_vars

\* C19: renaming and classifying the classifier's output again gives the same
\* category, title, notes, tags and derived fields.
C19_Idempotent ==
    tstage = "again" =>
        /\ Len(tagain) = Len(tout)
        /\ \A i \in DOMAIN tout :
              /\ tagain[i].calendar_name = tout[i].calendar_name
              /\ tagain[i].processed_event_name = tout[i].processed_event_name
              /\ tagain[i].processed_notes = tout[i].processed_notes
              /\ tagain[i].extracted_tags = tout[i].extracted_tags
              /\ tagain[i].learning_method = tout[i].learning_method
              /\ tagain[i].learning_target = tout[i].learning_target
              /\ tagain[i].work_tags = tout[i].work_tags
              /\ tagain[i].exercise_type = tout[i].exercise_type
              /\ tagain[i].is_risky_recharger = tout[i].is_risky_recharger
              /\ tagain[i].has_emotion_event = tout[i].has_emotion_event
              /\ tagain[i].has_relationship_tag = tout[i].has_relationship_tag

\* C20: a row that enters the classifier in the relationship category leaves
\* it in the maintenance category when its title has a maintenance keyword and
\* in the rest category otherwise; in both cases its sub-label contains the
\* relationship tag and has_relationship_tag is true.
C20_RelationshipReclassified ==
    [][ClassifyStep =>
          \A i \in DOMAIN tout :
              tout[i].calendar_name = "relationship" =>
                  /\ tout'[i].calendar_name =
                        IF \E k \in DOMAIN tout[i].event_name : tout[i].event_name[k] = "chat"
                        THEN "maintenance" ELSE "rest"
                  /\ SubContains(tout'[i].sub_category, "#rel")
                  /\ tout'[i].has_relationship_tag]_vars

\* a word of the title or of the notes is the driving keyword
DrivingRow(row) ==
    \E w \in {row.event_name[k] : k \in DOMAIN row.event_name}
              \cup {row.notes[k] : k \in DOMAIN row.notes} : w = "drive"

\* C21: a chores record whose title or notes contain the driving keyword
\* leaves the classifier with the fixed driving title and with notes made of
\* the whole original title followed by the original notes when there were
\* any; a chores record without the keyword keeps its title and notes.
C21_DrivingRewrite ==
    [][ClassifyStep =>
          \A i \in DOMAIN tout :
              (tout[i].calendar_name = "chore" /\ tout'[i].calendar_name = "chore") =>
                  IF DrivingRow(tout[i])
                  THEN /\ tout'[i].processed_event_name = <<"drive">>
                       /\ tout'[i].processed_notes =
                             IF tout[i].notes = <<>> THEN tout[i].event_name
                             ELSE tout[i].event_name \o <<"-">> \o tout[i].notes
                  ELSE /\ tout'[i].processed_event_name = tout[i].event_name
                       /\ tout'[i].processed_notes = tout[i].notes]_vars

\* the words of a row's title and sub-label
TitleAndSubLabel(row) ==
    {row.event_name[k] : k \in DOMAIN row.event_name}
        \cup UNION {{row.sub_category[k][j] : j \in DOMAIN row.sub_category[k]} :
                        k \in DOMAIN row.sub_category}

\* C22: an exercise record gets the type anaerobic when only the anaerobic
\* keyword occurs in its title and sub-label, aerobic when only the aerobic
\* one does, mixed when both do and other when neither does; a record of
\* another category gets no exercise type.
C22_ExerciseType ==
    [][ClassifyStep =>
          \A i \in DOMAIN tout :
              LET an == "squat" \in TitleAndSubLabel(tout[i])
                  ae == "walk" \in TitleAndSubLabel(tout[i])
              IN  tout'[i].exercise_type =
                      IF tout[i].calendar_name # "exercise" THEN "None"
                      ELSE IF an /\ ae THEN "mixed"
                      ELSE IF an THEN "anaerobic"
                      ELSE IF ae THEN "aerobic"
                      ELSE "other"]_vars

\* an exercise record matching both keyword sets has been typed
C22_Witness ==
    /\ tstage = "classified"
    /\ \E i \in DOMAIN tout :
          /\ tout[i].calendar_name = "exercise"
          /\ "squat" \in TitleAndSubLabel(tout[i])
          /\ "walk" \in TitleAndSubLabel(tout[i])
          /\ tout[i].exercise_type = "mixed"

\* C30: every #token of a record's original sub-label is among its extracted
\* tags after classification, whatever its category, and has_emotion_event
\* is true whenever the original sub-label carried the emotion-event tag.
C30_NoTagRemoved ==
    [][ClassifyStep =>
          \A i \in DOMAIN tout :
              /\ \A k \in DOMAIN tout[i].sub_category :
                    \A j \in DOMAIN tout[i].sub_category[k] :
                        tout[i].sub_category[k][j] \in {"#rel", "#emo", "#now", "#plan"} =>
                            \E t \in DOMAIN tout'[i].extracted_tags :
                                \E a \in DOMAIN tout'[i].extracted_tags[t] :
                                    tout'[i].extracted_tags[t][a] = tout[i].sub_category[k][j]
              /\ (\E k \in DOMAIN tout[i].sub_category :
                      tout[i].sub_category[k] = <<"#emo">>) =>
                        tout'[i].has_emotion_event]_vars

\* C23: after a run over a collection holding a document that cannot be
\* parsed, every other document of the collection has its cleaned documents
\* among those handed to the writer, and the unparsable one has none.
C23_BadRecordSkipped ==
    tstage = "saved" =>
        \A i \in DOMAIN tdocs :
            (tdocs[i].shape = "ok") <=>
                (\E j \in DOMAIN tout : tout[j].original_id = tdocs[i].row.id)

\* C24: the loop of extract skips a file only when a processing record holds
\* exactly its path and the hash of its current content; a file whose content
\* is recorded under another path only, or whose path is recorded with another
\* hash only, is not skipped: it goes to _process_single_file.
C24_DedupByPathAndHash ==
    [][(/\ cpc = "loop" /\ cpc' # "killed" /\ edits' = edits
        /\ outcome' \in {"skipped", "processing"}) =>
          /\ cur'.file_hash = [sha256 |-> files[cur'.file_path]]
          /\ (outcome' = "skipped") =>
                (\E d \in pfiles : /\ d.file_path = cur'.file_path
                                    /\ d.file_hash = cur'.file_hash)
          /\ (outcome' = "processing") <=> (cpc' = "processing")]_vars

\* a file is being processed whose content is recorded under another path,
\* and a file whose path is recorded with another content
C24_Witness ==
    /\ cpc = "processing"
    /\ \/ \E d \in pfiles : d.file_hash = cur.file_hash /\ d.file_path # cur.file_path
       \/ \E d \in pfiles : d.file_hash # cur.file_hash /\ d.file_path = cur.file_path
    /\ ~\E d \in pfiles : d.file_hash = cur.file_hash /\ d.file_path = cur.file_path

\* C26: the raw calendar collection never holds two records of the same
\* (title, start time) pair, whatever files were imported and however the
\* imports ended.
C26_OneRecordPerEvent ==
    \A d1, d2 \in events : d1.key = d2.key => d1 = d2

\* the stored events whose is_deleted flag the step turns on
MarkedDeleted ==
    {d \in graw : ~d.is_deleted /\ \E d2 \in graw' : d2.id = d.id /\ d2.is_deleted}

\* C27: the soft-delete step of a crawl marks only stored events whose start
\* lies inside the window the crawl fetched, the last 30 days when no window
\* was given; events outside it keep is_deleted.
C27_MarksOnlyInsideWindow ==
    [][\A d \in MarkedDeleted :
          IF glast'.window.given
          THEN /\ d.start_datetime >= glast'.window.time_min
               /\ d.start_datetime <= glast'.window.time_max
          ELSE d.start_datetime = 1]_vars

\* C28: a crawl never marks deleted an event the API returned to it, stored
\* normally, skipped for a missing start/end, or failed in parsing or
\* validation.
C28_ReturnedNeverMarked ==
    [][\A d \in MarkedDeleted : d.google_event_id \notin glast'.returned]_vars

\* C29: after a crawl the raw store holds at most one record per
\* google_event_id, and every event fetched again keeps the record id it had
\* while its start and last_synced_at are those of this crawl.
C29_RefetchRefreshes ==
    [][(gnow' = gnow + 1 /\ glast'.at = gnow') =>
          /\ \A d1, d2 \in graw' : d1.google_event_id = d2.google_event_id => d1 = d2
          /\ \A d \in graw :
                d.google_event_id \in glast'.fetched =>
                    \E d2 \in graw' : /\ d2.google_event_id = d.google_event_id
                                       /\ d2.id = d.id
                                       /\ d2.start_datetime = gapi[d.google_event_id]
                                       /\ d2.last_synced_at = gnow']_vars

\* C25: once a run has reprocessed and written the current version of a raw
\* entity whose interval was changed, the canonical records stored under its
\* original_id are exactly the sub-intervals of the current interval, each of
\* the current version: no record of the previous version remains.
C25_NoStaleSubInterval ==
    pc[1] = "saved" =>
        \A row \in sel[1] :
            (raw[row.id].ver = row.ver /\ row.ver > 0) =>
                /\ \A d \in store : d.oid = row.id => d.ver = row.ver
                /\ {d.sub : d \in {x \in store : x.oid = row.id}} = 1..raw[row.id].span

====
